---- MODULE Spec2Model ----
(***************************************************************************)
(* Slide-deck generators of claude-tutorial                                *)
(*   src/create_presentation.py                 (variant "cp")             *)
(*   src/create_interactive_presentation.py     (variant "ip")             *)
(*   src/create_interactive_presentation_v2.py  (variant "v2")             *)
(*                                                                         *)
(* The state machines modelled:                                            *)
(*  - SpecCanvas: NumberedCanvas, the deferred page-numbering overlay.     *)
(*    The three scripts define the class with the same statements.  The    *)
(*    base class canvas.Canvas is reportlab's; the four base operations    *)
(*    the overlay calls (_startPage, showPage, save, a drawing operator)   *)
(*    are modelled by their documented effect on _pageNumber, _code and    *)
(*    the document's page list.                                            *)
(*  - SpecDeck: the slide assembler (the create_*_slide functions), the    *)
(*    process-wide prompt list and export_prompts_to_markdown, as runs of  *)
(*    create_presentation.  SpecContent applies create_content_slide once  *)
(*    to every item list within the bounds.                                *)
(*                                                                         *)
(* A Python str is a sequence of tokens: a literal fragment of the source  *)
(* is one token, a character of an argument is one token.                  *)
(***************************************************************************)
EXTENDS Integers, Sequences, FiniteSets, TLC

\* ---------------------------------------------------------------- bounds
MaxPages == 3      \* showPage calls on one canvas
MaxOps == 2        \* drawing operations on one page
MaxSaves == 2      \* save calls on one canvas
MaxSlides == 2     \* create_*_slide calls in one run of create_presentation
MaxRuns == 2       \* runs of create_presentation in one process
MaxPrompts == 2    \* hands-on slides created in one process
MaxItems == 2      \* items of a content slide
MaxSubs == 2       \* sub-items of one (heading, sub-items) item
MaxCodeLines == 22 \* lines of the code string of a code slide
MaxLayoutSlides == 2 \* create_*_slide calls of a run laid out with a small frame
FrameCap == 5      \* drawn flowables (paragraphs, tables) that fit the frame of a page
MaxColItems == 3   \* items of one column of a two-column slide
MaxRunSlides == 1  \* create_*_slide calls of a run whose build is taken step by step

\* drawing operations the layout engine issues on a page
DrawOps == {<<"draw", "a">>, <<"draw", "b">>}

\* ------------------------------------------------------- strings, blocks

\* glyphs of the markup (the interactive scripts hold the same glyphs in
\* another byte encoding); attribute quotes of the markup are left out
Bullet == "(bullet) "
SubBullet == "   (white bullet) "
CheckMark == "(check) "
Hammer == "(hammer) Hands-On: "
NL == "\n"
BR == "<br/>"
NBSP == "&nbsp;"
FENCE == "(fence)"   \* the line of three backquotes

\* str.replace(old, new) for one-token old and new
Replace(s, old, new) == [i \in 1..Len(s) |-> IF s[i] = old THEN new ELSE s[i]]

\* str.upper() on the letters the language names use
UpperChar(c) ==
  CASE c = "g" -> "G" [] c = "o" -> "O" [] c = "s" -> "S" [] c = "q" -> "Q"
    [] c = "l" -> "L" [] OTHER -> c
Upper(s) == [i \in 1..Len(s) |-> UpperChar(s[i])]

\* str.split at the newlines: the pieces between the newlines, at least one piece
RECURSIVE SplitFrom(_, _, _)
SplitFrom(s, i, cur) ==
  IF i > Len(s) THEN <<cur>>
  ELSE IF s[i] = NL THEN <<cur>> \o SplitFrom(s, i + 1, <<>>)
  ELSE SplitFrom(s, i + 1, Append(cur, s[i]))
Split(s) == SplitFrom(s, 1, <<>>)

\* code_lines[:20]
CodeLineLimit == 20
\* a slice that keeps one element more
Take_OneMore(q, n) == SubSeq(q, 1, IF Len(q) < n + 1 THEN Len(q) ELSE n + 1)

Take(q, n) == SubSeq(q, 1, IF Len(q) < n THEN Len(q) ELSE n)

\* '%d' / f'{n}' of a non-negative int
Digit == <<"0", "1", "2", "3", "4", "5", "6", "7", "8", "9">>
RECURSIVE Str(_)
Str(n) == IF n < 10 THEN <<Digit[n + 1]>> ELSE Str(n \div 10) \o <<Digit[(n % 10) + 1]>>

\* flowables: Paragraph(text, style), Spacer(1, h), PageBreak(), Table(rows)
Paragraph(text, style) == [kind |-> "Paragraph", text |-> text, arg |-> style, cells |-> <<>>]
Spacer(h) == [kind |-> "Spacer", text |-> <<>>, arg |-> h, cells |-> <<>>]
PageBreak == [kind |-> "PageBreak", text |-> <<>>, arg |-> "", cells |-> <<>>]
Table(cells, widths) == [kind |-> "Table", text |-> <<>>, arg |-> widths, cells |-> cells]

Font(color, size) == "<font color=" \o color \o " size=" \o size \o ">"
FontFace(color, size, face) ==
  "<font color=" \o color \o " size=" \o size \o " face=" \o face \o ">"
EndFont == "</font>"

\* a content item: a str (tag "str", head the text) or a tuple (heading, sub-items)
StrItem(t) == [tag |-> "str", head |-> t, subs |-> <<>>]
TupleItem(h, subs) == [tag |-> "tuple", head |-> h, subs |-> subs]
\* the other things a content list can hold: the empty tuple (), a one-element
\* tuple (h,), a tuple (h, n) whose second element is a number, a tuple (h, s)
\* whose second element is a str (iterating a str yields its characters), and
\* an item that is neither a str nor a tuple, such as a list
Tuple0Item == [tag |-> "tuple0", head |-> <<>>, subs |-> <<>>]
Tuple1Item(h) == [tag |-> "tuple1", head |-> h, subs |-> <<>>]
TupleNumItem(h) == [tag |-> "tuple_num", head |-> h, subs |-> <<>>]
TupleStrItem(h, s) == TupleItem(h, [i \in 1..Len(s) |-> <<s[i]>>])
ListItem(h) == [tag |-> "list", head |-> h, subs |-> <<>>]

\* the scripts that define each operation
HasHandsOn(v) == v \in {"ip", "v2"}
HasCode(v) == v \in {"ip", "v2"}
HasTwoColumn(v) == v \in {"cp", "ip"}
HasPrompts(v) == v = "v2"

\* a title slide that is nothing but a page break
TitleSlideBlocks_Blank(v) == << PageBreak >>

\* create_title_slide
TitleSlideBlocks(v) ==
  IF v = "cp"
  THEN << Spacer("1.5in"),
          Paragraph(<<Font("#003E7E", "48"), "<b>Claude Code</b>", EndFont>>, "Title"),
          Spacer("0.2in"),
          Paragraph(<<Font("#0076CE", "32"), "Tutorial & Best Practices", EndFont>>, "Title"),
          Spacer("0.3in"),
          Paragraph(<<Font("#5B5B5B", "16"),
                      "AI-First Development for Modern Software Teams", EndFont>>, "Title"),
          PageBreak >>
  ELSE << Spacer("1.5in"),
          Paragraph(<<Font("#003E7E", "48"), "<b>Claude Code</b>", EndFont>>, "Title"),
          Spacer("0.2in"),
          Paragraph(<<Font("#0076CE", "32"), "Interactive Tutorial & Workshop", EndFont>>,
                    "Title"),
          Spacer("0.3in"),
          Paragraph(<<Font("#5B5B5B", "16"),
                      "AI-First Development for Modern Software Teams", EndFont>>, "Title"),
          Spacer("0.5in"),
          Paragraph(<<Font("#999999", "12"),
                      "https://github.com/emmanuelandre/claude-tutorial", EndFont>>, "Title"),
          PageBreak >>

\* a section slide without its page break
SectionSlideBlocks_NoBreak(v, title) ==
  << Spacer("1.8in"),
     Table(<< <<Font("#FFFFFF", "38"), "<b>">> \o title \o <<"</b>", EndFont>> >>, "9.5in") >>

\* create_section_slide
SectionSlideBlocks(v, title) ==
  << Spacer("1.8in"),
     Table(<< <<Font("#FFFFFF", "38"), "<b>">> \o title \o <<"</b>", EndFont>> >>, "9.5in"),
     PageBreak >>

\* a sub-item loop that stops after its first sub-item
SubItemBlocks_FirstOnly(subs) ==
  IF subs = <<>> THEN <<>>
  ELSE << Paragraph(<<Font("#666666", "12"), SubBullet>> \o Head(subs) \o <<EndFont>>,
                    "BodyText"),
          Spacer("0.08in") >>

\* the blocks of one content item (the body of the for loop)
RECURSIVE SubItemBlocks(_)
SubItemBlocks(subs) ==
  IF subs = <<>> THEN <<>>
  ELSE << Paragraph(<<Font("#666666", "12"), SubBullet>> \o Head(subs) \o <<EndFont>>,
                    "BodyText"),
          Spacer("0.08in") >> \o SubItemBlocks(Tail(subs))

\* an item branch that emits nothing for a tuple without sub-items
ItemBlocks_SkipEmpty(item) ==
  IF item.tag = "str"
  THEN << Paragraph(<<Font("#5B5B5B", "14"), Bullet>> \o item.head \o <<EndFont>>,
                    "BodyText"),
          Spacer("0.15in") >>
  ELSE IF item.tag = "tuple" /\ item.subs # <<>>
  THEN << Paragraph(<<Font("#5B5B5B", "14"), "<b>">> \o item.head \o <<"</b>", EndFont>>,
                    "BodyText"),
          Spacer("0.1in") >>
       \o SubItemBlocks(item.subs)
       \o << Spacer("0.1in") >>
  ELSE <<>>

\* an item branch that shows any other item as a bullet of its first element
ItemBlocks_AnyAsBullet(item) ==
  IF item.tag = "tuple"
  THEN << Paragraph(<<Font("#5B5B5B", "14"), "<b>">> \o item.head \o <<"</b>", EndFont>>,
                    "BodyText"),
          Spacer("0.1in") >>
       \o SubItemBlocks(item.subs)
       \o << Spacer("0.1in") >>
  ELSE << Paragraph(<<Font("#5B5B5B", "14"), Bullet>> \o item.head \o <<EndFont>>,
                    "BodyText"),
          Spacer("0.15in") >>

ItemBlocks(item) ==
  IF item.tag = "str"
  THEN << Paragraph(<<Font("#5B5B5B", "14"), Bullet>> \o item.head \o <<EndFont>>,
                    "BodyText"),
          Spacer("0.15in") >>
  ELSE IF item.tag = "tuple"
  THEN << Paragraph(<<Font("#5B5B5B", "14"), "<b>">> \o item.head \o <<"</b>", EndFont>>,
                    "BodyText"),
          Spacer("0.1in") >>
       \o SubItemBlocks(item.subs)
       \o << Spacer("0.1in") >>
  ELSE <<>>

RECURSIVE ItemsBlocks(_)
ItemsBlocks(items) ==
  IF items = <<>> THEN <<>> ELSE ItemBlocks(Head(items)) \o ItemsBlocks(Tail(items))

\* create_content_slide
ContentSlideBlocks(v, title, content_items) ==
  << Paragraph(<<Font("#003E7E", "28"), "<b>">> \o title \o <<"</b>", EndFont>>, "Heading1"),
     Spacer("0.3in") >>
  \o ItemsBlocks(content_items)
  \o << PageBreak >>

\* Paragraph text of the prompt box of create_hands_on_slide
\* (v2: prompt.replace('\n', '<br/>') in a size 10 box; ip: the prompt as passed)
PromptBoxText(v, prompt) ==
  IF v = "v2"
  THEN <<FontFace("#5B5B5B", "10", "Courier")>> \o Replace(prompt, NL, BR) \o <<EndFont>>
  ELSE <<FontFace("#5B5B5B", "12", "Courier")>> \o prompt \o <<EndFont>>

\* create_hands_on_slide, the blocks
HandsOnSlideBlocks(v, title, prompt, expected_result) ==
  << Paragraph(<<Font("#003E7E", "28"), "<b>", Hammer>> \o title \o <<"</b>", EndFont>>,
               "Heading1"),
     Spacer(IF v = "v2" THEN "0.2in" ELSE "0.3in"),
     Paragraph(<<Font("#0076CE", "16"),
                 IF v = "v2" THEN "<b>YOUR PROMPT (See prompts.md):</b>"
                             ELSE "<b>YOUR PROMPT:</b>",
                 EndFont>>, "BodyText"),
     Spacer("0.15in"),
     Paragraph(PromptBoxText(v, prompt), IF v = "v2" THEN "PromptBox" ELSE "Code"),
     Spacer(IF v = "v2" THEN "0.2in" ELSE "0.25in"),
     Paragraph(<<Font("#0076CE", "14"), "<b>What You Should See:</b>", EndFont>>, "BodyText"),
     Spacer("0.1in"),
     Paragraph(<<Font("#5B5B5B", "12"), Bullet>> \o expected_result \o <<EndFont>>,
               "BodyText"),
     PageBreak >>

\* a record that keeps the prompt in the form shown on the slide
PromptRecord_SlideForm(title, prompt, expected_result, page) ==
  [page |-> page, title |-> title, prompt |-> Replace(prompt, NL, BR),
   expected |-> expected_result]

\* the record create_hands_on_slide (v2) appends to ALL_PROMPTS
PromptRecord(title, prompt, expected_result, page) ==
  [page |-> page, title |-> title, prompt |-> prompt, expected |-> expected_result]

\* create_code_slide of ip: one Paragraph and Spacer per line, for code_lines[:20]
RECURSIVE CodeLineBlocks(_)
CodeLineBlocks(lines) ==
  IF lines = <<>> THEN <<>>
  ELSE << Paragraph(<<FontFace("#5B5B5B", "9", "Courier")>> \o Head(lines) \o <<EndFont>>,
                    "BodyText"),
          Spacer("0.05in") >> \o CodeLineBlocks(Tail(lines))

\* create_code_slide
CodeSlideBlocks(v, title, language, code_text) ==
  IF v = "v2"
  THEN << Paragraph(<<Font("#003E7E", "24"), "<b>">> \o title \o <<"</b>", EndFont>>,
                    "Heading1"),
          Spacer("0.25in"),
          Paragraph(<<Font("#0076CE", "12"), "<b>">> \o Upper(language) \o <<"</b>", EndFont>>,
                    "BodyText"),
          Spacer("0.1in"),
          Paragraph(<<FontFace("#5B5B5B", "9", "Courier")>>
                      \o Replace(Replace(code_text, NL, BR), " ", NBSP) \o <<EndFont>>,
                    "CodeBox"),
          PageBreak >>
  ELSE << Paragraph(<<Font("#003E7E", "24"), "<b>">> \o title \o <<"</b>", EndFont>>,
                    "Heading1"),
          Spacer("0.2in"),
          Paragraph(<<Font("#0076CE", "12"), "<b>">> \o language \o <<"</b>", EndFont>>,
                    "BodyText"),
          Spacer("0.1in") >>
       \o CodeLineBlocks(Take(Split(code_text), CodeLineLimit))
       \o << PageBreak >>

\* left_content / right_content of create_two_column_slide
RECURSIVE ColumnItems(_, _)
ColumnItems(mark, items) ==
  IF items = <<>> THEN <<>>
  ELSE <<Font("#5B5B5B", "12"), mark>> \o Head(items) \o <<EndFont, "<br/><br/>">>
       \o ColumnItems(mark, Tail(items))

ColumnText(mark, col_title, items) ==
  <<Font("#0076CE", "16"), "<b>">> \o col_title \o <<"</b>", EndFont, "<br/><br/>">>
  \o ColumnItems(mark, items)

\* a two-column slide whose cells take each other's items
TwoColumnSlideBlocks_Crossed(v, title, left_title, left_items, right_title, right_items) ==
  << Paragraph(<<Font("#003E7E", "28"), "<b>">> \o title \o <<"</b>", EndFont>>, "Heading1"),
     Spacer("0.3in"),
     Table(<< ColumnText(CheckMark, left_title, right_items),
              ColumnText(Bullet, right_title, left_items) >>, "4.5in,4.5in"),
     PageBreak >>

\* create_two_column_slide
TwoColumnSlideBlocks(v, title, left_title, left_items, right_title, right_items) ==
  << Paragraph(<<Font("#003E7E", "28"), "<b>">> \o title \o <<"</b>", EndFont>>, "Heading1"),
     Spacer("0.3in"),
     Table(<< ColumnText(CheckMark, left_title, left_items),
              ColumnText(Bullet, right_title, right_items) >>, "4.5in,4.5in"),
     PageBreak >>

\* the closing slide create_presentation appends itself (no page break after it)
FinalSlideBlocks(v) ==
  << Spacer("2in"),
     Paragraph(<<Font("#003E7E", "48"), "<b>Thank You!</b>", EndFont>>, "Title"),
     Spacer("0.4in"),
     Paragraph(<<Font("#5B5B5B", "24"),
                 IF v = "ip" THEN "Questions & Practice Time" ELSE "Questions?",
                 EndFont>>, "Title") >>
  \o IF v = "cp" THEN <<>>
     ELSE << Spacer("0.3in"),
             Paragraph(<<Font("#0076CE", "16"), "github.com/emmanuelandre/claude-tutorial",
                         EndFont>>, "Title") >>

\* export_prompts_to_markdown: the text written for one record
SectionText(item) ==
  <<"## Page ">> \o Str(item.page) \o <<": ">> \o item.title \o <<NL, NL>>
  \o <<"**PROMPT:**", NL, FENCE, NL>>
  \o item.prompt
  \o <<NL, FENCE, NL, NL>>
  \o <<"**EXPECTED RESULT:**", NL>>
  \o item.expected \o <<NL, NL>>
  \o <<"---", NL, NL>>

\* an export loop that writes the latest record first
RECURSIVE SectionsText_LatestFirst(_)
SectionsText_LatestFirst(records) ==
  IF records = <<>> THEN <<>>
  ELSE SectionsText_LatestFirst(Tail(records)) \o SectionText(Head(records))

RECURSIVE SectionsText(_)
SectionsText(records) ==
  IF records = <<>> THEN <<>> ELSE SectionText(Head(records)) \o SectionsText(Tail(records))

\* export_prompts_to_markdown: the whole file
PromptsHeader ==
  <<"# Claude Code Tutorial - Workshop Prompts", NL, NL,
    "Copy and paste these prompts during the workshop exercises.", NL, NL,
    "---", NL, NL>>

PromptsMarkdown(records) == PromptsHeader \o SectionsText(records)

VARIABLES
  \* ---- NumberedCanvas (one instance)
  pageNumber,          \* self._pageNumber
  code,                \* self._code, the draw operations of the current page
  saved_page_states,   \* self._saved_page_states
  docPages,            \* self._doc: the pages committed to the document
  outFile,             \* what SaveToFile last wrote ("none" before any save)
  cpc,                 \* position inside save: "ready", "loop", "footer", "commit"
  num_pages,           \* local num_pages of save
  idx,                 \* position of the for loop of save in the list
  \* ---- history of the overlay (not program state)
  captured,            \* the draw state of each showPage call of the overlay, as captured
  saveCalls,           \* number of completed save calls
  shownAtSave,         \* Len(captured) when the running/last save was called
  docAtSave,           \* Len(docPages) when the running/last save was called
  drawn,               \* footer texts drawn by the running/last save, in order
  \* ---- the script
  variant,             \* which script runs: "cp", "ip" or "v2"
  story,               \* the list story of create_presentation
  ALL_PROMPTS,         \* the module-level list ALL_PROMPTS (v2)
  page_num,            \* the local page_num of create_presentation (v2)
  dpc,                 \* position inside create_presentation
  promptsFile,         \* contents of prompts.md ("none" while it does not exist)
  printed,             \* the lines printed so far
  handoffs,            \* the lists passed to doc.build in the current run
  raised,              \* the exception that ended the run ("none" while none did)
  writable,            \* whether the output path can be opened for writing
  \* ---- history of the script (not program state)
  runs,                \* runs of create_presentation started
  slides,              \* create_*_slide calls completed in the current run
  handsCalls,          \* arguments of the create_hands_on_slide calls so far
  lastCall             \* the last create_*_slide call of the current run

canvasVars == <<pageNumber, code, saved_page_states, docPages, outFile, cpc,
                num_pages, idx, captured, saveCalls, shownAtSave, docAtSave, drawn>>

deckVars == <<variant, story, ALL_PROMPTS, page_num, dpc, promptsFile, printed,
              handoffs, raised, writable, runs, slides, handsCalls, lastCall>>

vars == <<canvasVars, deckVars>>

\* ------------------------------------------------------- NumberedCanvas

\* "Page %d of %d" % (self._pageNumber, page_count)
PageText(n, count) == <<"Page ", n, " of ", count>>

\* the two marks draw_page_number puts on the page: the rule and the text
FooterOps(n, count) == << <<"line">>, <<"text", PageText(n, count)>> >>

\* draw_page_number of create_interactive_presentation.py
PageText_ip(n, count) == <<"Page ", n, " of ", count>>
FooterOps_ip(n, count) == << <<"line">>, <<"text", PageText_ip(n, count)>> >>

\* draw_page_number of create_interactive_presentation_v2.py
PageText_v2(n, count) == <<"Page ", n, " of ", count>>
FooterOps_v2(n, count) == << <<"line">>, <<"text", PageText_v2(n, count)>> >>

\* the footer text of the NumberedCanvas class of script v
PageTextOf(v, n, count) ==
  IF v = "cp" THEN PageText(n, count)
  ELSE IF v = "ip" THEN PageText_ip(n, count)
  ELSE PageText_v2(n, count)

\* a v2 overlay that writes its footers as "i/N"
FooterOpsOf_ShortInV2(v, n, count) ==
  IF v = "cp" THEN FooterOps(n, count)
  ELSE IF v = "ip" THEN FooterOps_ip(n, count)
  ELSE << <<"line">>, <<"text", <<n, "/", count>> >> >>

\* the footer marks of the NumberedCanvas class of script v
FooterOpsOf(v, n, count) ==
  IF v = "cp" THEN FooterOps(n, count)
  ELSE IF v = "ip" THEN FooterOps_ip(n, count)
  ELSE FooterOps_v2(n, count)

IsFooterText(op) == Len(op) = 2 /\ op[1] = "text"
IsFooterOp(op) == op = <<"line">> \/ IsFooterText(op)

\* dict(self.__dict__): a shallow copy; the _code entry is the list object itself
Snapshot == [pageNumber |-> pageNumber, code |-> code]

\* canvas.Canvas.__init__ followed by self._saved_page_states = []
CanvasFresh ==
  /\ pageNumber = 1
  /\ code = <<>>
  /\ saved_page_states = <<>>
  /\ docPages = <<>>
  /\ outFile = "none"
  /\ cpc = "ready"
  /\ num_pages = 0
  /\ idx = 0
  /\ captured = <<>>
  /\ saveCalls = 0
  /\ shownAtSave = 0
  /\ docAtSave = 0
  /\ drawn = <<>>

\* a drawing call of the layout engine on the current page (appends to _code)
Draw(op) ==
  /\ cpc = "ready"
  /\ Len(code) < MaxOps
  /\ code' = Append(code, op)
  /\ UNCHANGED <<pageNumber, saved_page_states, docPages, outFile, cpc, num_pages,
                 idx, captured, saveCalls, shownAtSave, docAtSave, drawn>>

\* a showPage that also finalizes the page at once, as the base class does
showPage_CommitsAtOnce ==
  /\ cpc = "ready"
  /\ Len(captured) < MaxPages
  /\ saved_page_states' = Append(saved_page_states, Snapshot)
  /\ docPages' = Append(docPages, code)
  /\ pageNumber' = pageNumber + 1
  /\ code' = <<>>
  /\ captured' = Append(captured, code)
  /\ UNCHANGED <<outFile, cpc, num_pages, idx, saveCalls, shownAtSave, docAtSave,
                 drawn>>

\* NumberedCanvas.showPage: append the snapshot, then self._startPage()
\* (_startPage: _pageNumber += 1 and a fresh, empty _code list)
capturePage ==
  /\ cpc = "ready"
  /\ saved_page_states' = Append(saved_page_states, Snapshot)
  /\ pageNumber' = pageNumber + 1
  /\ code' = <<>>
  /\ captured' = Append(captured, code)
  /\ UNCHANGED <<docPages, outFile, cpc, num_pages, idx, saveCalls, shownAtSave,
                 docAtSave, drawn>>

\* a showPage call on a canvas driven freely: at most MaxPages of them
showPage ==
  /\ cpc = "ready"
  /\ Len(captured) < MaxPages
  /\ saved_page_states' = Append(saved_page_states, Snapshot)
  /\ pageNumber' = pageNumber + 1
  /\ code' = <<>>
  /\ captured' = Append(captured, code)
  /\ UNCHANGED <<docPages, outFile, cpc, num_pages, idx, saveCalls, shownAtSave,
                 docAtSave, drawn>>

\* a save that first closes the page in progress, so that it is replayed too
saveBegin_ClosesPage ==
  /\ cpc = "ready"
  /\ saveCalls < MaxSaves
  /\ IF Len(code) > 0
       THEN /\ saved_page_states' = Append(saved_page_states, Snapshot)
            /\ captured' = Append(captured, code)
            /\ pageNumber' = pageNumber + 1
            /\ code' = <<>>
            /\ num_pages' = Len(saved_page_states) + 1
       ELSE /\ num_pages' = Len(saved_page_states)
            /\ UNCHANGED <<saved_page_states, captured, pageNumber, code>>
  /\ idx' = 1
  /\ cpc' = "loop"
  /\ shownAtSave' = Len(captured)
  /\ docAtSave' = Len(docPages)
  /\ drawn' = <<>>
  /\ UNCHANGED <<docPages, outFile, saveCalls>>

\* NumberedCanvas.save, entry: num_pages = len(self._saved_page_states)
saveBegin ==
  /\ cpc = "ready"
  /\ saveCalls < MaxSaves
  /\ num_pages' = Len(saved_page_states)
  /\ idx' = 1
  /\ cpc' = "loop"
  /\ shownAtSave' = Len(captured)
  /\ docAtSave' = Len(docPages)
  /\ drawn' = <<>>
  /\ UNCHANGED <<pageNumber, code, saved_page_states, docPages, outFile, captured,
                 saveCalls>>

\* a replay that restores the page content but not the rest of the state
saveRestore_CodeOnly ==
  /\ cpc = "loop"
  /\ idx <= Len(saved_page_states)
  /\ code' = saved_page_states[idx].code
  /\ cpc' = "footer"
  /\ UNCHANGED <<pageNumber, saved_page_states, docPages, outFile, num_pages, idx,
                 captured, saveCalls, shownAtSave, docAtSave, drawn>>

\* a replay that walks the list from its end, keeping each page's own number
saveRestore_Reversed ==
  /\ cpc = "loop"
  /\ idx <= Len(saved_page_states)
  /\ pageNumber' = idx
  /\ code' = saved_page_states[Len(saved_page_states) + 1 - idx].code
  /\ cpc' = "footer"
  /\ UNCHANGED <<saved_page_states, docPages, outFile, num_pages, idx, captured,
                 saveCalls, shownAtSave, docAtSave, drawn>>

\* for state in self._saved_page_states: self.__dict__.update(state)
\* (the iterator reads the live list; it ends when idx passes its length)
saveRestore ==
  /\ cpc = "loop"
  /\ idx <= Len(saved_page_states)
  /\ pageNumber' = saved_page_states[idx].pageNumber
  /\ code' = saved_page_states[idx].code
  /\ cpc' = "footer"
  /\ UNCHANGED <<saved_page_states, docPages, outFile, num_pages, idx, captured,
                 saveCalls, shownAtSave, docAtSave, drawn>>

\* a replay that goes on to the commit without drawing the footer
saveFooter_Skipped ==
  /\ cpc = "footer"
  /\ cpc' = "commit"
  /\ UNCHANGED <<pageNumber, code, saved_page_states, docPages, outFile, num_pages, idx,
                 captured, saveCalls, shownAtSave, docAtSave, drawn>>

\* self.draw_page_number(num_pages): the marks are appended to self._code, which
\* after the update is the very list held by the snapshot
saveFooter ==
  /\ cpc = "footer"
  /\ code' = code \o FooterOpsOf(variant, pageNumber, num_pages)
  /\ saved_page_states' =
       [saved_page_states EXCEPT
          ![idx].code = @ \o FooterOpsOf(variant, pageNumber, num_pages)]
  /\ drawn' = Append(drawn, PageTextOf(variant, pageNumber, num_pages))
  /\ cpc' = "commit"
  /\ UNCHANGED <<pageNumber, docPages, outFile, num_pages, idx, captured, saveCalls,
                 shownAtSave, docAtSave>>

\* a commit that goes through the overlay's own showPage and so also captures
saveCommit_Captures ==
  /\ cpc = "commit"
  /\ Len(saved_page_states) < 2 * MaxPages + 2
  /\ saved_page_states' = Append(saved_page_states, Snapshot)
  /\ docPages' = Append(docPages, code)
  /\ pageNumber' = pageNumber + 1
  /\ code' = <<>>
  /\ idx' = idx + 1
  /\ cpc' = "loop"
  /\ UNCHANGED <<outFile, num_pages, captured, saveCalls, shownAtSave, docAtSave,
                 drawn>>

\* canvas.Canvas.showPage(self): the page made of _code joins the document,
\* then _startPage()
saveCommit ==
  /\ cpc = "commit"
  /\ docPages' = Append(docPages, code)
  /\ pageNumber' = pageNumber + 1
  /\ code' = <<>>
  /\ idx' = idx + 1
  /\ cpc' = "loop"
  /\ UNCHANGED <<saved_page_states, outFile, num_pages, captured, saveCalls,
                 shownAtSave, docAtSave, drawn>>

\* a save whose trailing showPage is the base class's and commits the page
saveFinish_CommitsCurrent ==
  /\ cpc = "loop"
  /\ idx > Len(saved_page_states)
  /\ IF Len(code) > 0
       THEN /\ docPages' = Append(docPages, code)
            /\ pageNumber' = pageNumber + 1
            /\ code' = <<>>
            /\ outFile' = Append(docPages, code)
       ELSE /\ outFile' = docPages
            /\ UNCHANGED <<docPages, pageNumber, code>>
  /\ saveCalls' = saveCalls + 1
  /\ cpc' = "ready"
  /\ UNCHANGED <<saved_page_states, captured, num_pages, idx, shownAtSave, docAtSave,
                 drawn>>

\* canvas.Canvas.save(self): "if len(self._code): self.showPage()" (which is the
\* overlay's showPage), then the document is written to the file
saveFinish ==
  /\ cpc = "loop"
  /\ idx > Len(saved_page_states)
  /\ IF Len(code) > 0
       THEN /\ saved_page_states' = Append(saved_page_states, Snapshot)
            /\ pageNumber' = pageNumber + 1
            /\ code' = <<>>
            /\ captured' = Append(captured, code)
       ELSE UNCHANGED <<saved_page_states, pageNumber, code, captured>>
  /\ outFile' = docPages
  /\ saveCalls' = saveCalls + 1
  /\ cpc' = "ready"
  /\ UNCHANGED <<docPages, num_pages, idx, shownAtSave, docAtSave, drawn>>

\* canvas.Canvas.save(self) when open(filename, 'wb') inside SaveToFile raises:
\* the trailing showPage has run, the file is left as it was
saveFails ==
  /\ cpc = "loop"
  /\ idx > Len(saved_page_states)
  /\ IF Len(code) > 0
       THEN /\ saved_page_states' = Append(saved_page_states, Snapshot)
            /\ pageNumber' = pageNumber + 1
            /\ code' = <<>>
            /\ captured' = Append(captured, code)
       ELSE UNCHANGED <<saved_page_states, pageNumber, code, captured>>
  /\ cpc' = "ready"
  /\ UNCHANGED <<docPages, outFile, saveCalls, num_pages, idx, shownAtSave, docAtSave,
                 drawn>>

\* a new canvas that counts its pages from zero
CanvasNew_FromZero ==
  /\ pageNumber' = 0
  /\ code' = <<>>
  /\ saved_page_states' = <<>>
  /\ docPages' = <<>>
  /\ cpc' = "ready"
  /\ num_pages' = 0
  /\ idx' = 0
  /\ captured' = <<>>
  /\ saveCalls' = 0
  /\ shownAtSave' = 0
  /\ docAtSave' = 0
  /\ drawn' = <<>>
  /\ UNCHANGED outFile

\* canvasmaker(filename, ...): a new NumberedCanvas; the file of an earlier
\* build stays on disk until the new canvas is saved
CanvasNew ==
  /\ pageNumber' = 1
  /\ code' = <<>>
  /\ saved_page_states' = <<>>
  /\ docPages' = <<>>
  /\ cpc' = "ready"
  /\ num_pages' = 0
  /\ idx' = 0
  /\ captured' = <<>>
  /\ saveCalls' = 0
  /\ shownAtSave' = 0
  /\ docAtSave' = 0
  /\ drawn' = <<>>
  /\ UNCHANGED outFile

NextCanvas ==
  \/ \E op \in DrawOps : Draw(op) /\ UNCHANGED deckVars
  \/ showPage /\ UNCHANGED deckVars
  \/ saveBegin /\ UNCHANGED deckVars
  \/ saveRestore /\ UNCHANGED deckVars
  \/ saveFooter /\ UNCHANGED deckVars
  \/ saveCommit /\ UNCHANGED deckVars
  \/ saveFinish /\ UNCHANGED deckVars

\* ------------------------------------------------------------ the script

\* the exception the loop body raises on an item ("none" when it completes):
\* item[0] of () and item[1] of (h,) are out of range, a number is not iterable
ItemRaises(item) ==
  IF item.tag \in {"tuple0", "tuple1"} THEN "IndexError"
  ELSE IF item.tag = "tuple_num" THEN "TypeError"
  ELSE "none"

\* the blocks the loop body has appended when it raises: none for (), whose
\* item[0] is evaluated before anything is appended; the heading and its spacer
\* for the others, which raise at "for sub in item[1]"
ItemPartialBlocks(item) ==
  IF item.tag = "tuple0" THEN <<>>
  ELSE << Paragraph(<<Font("#5B5B5B", "14"), "<b>">> \o item.head \o <<"</b>", EndFont>>,
                    "BodyText"),
          Spacer("0.1in") >>

\* position of the first item that raises, 0 when none does
FirstRaising(items) ==
  IF \E k \in 1..Len(items) : ItemRaises(items[k]) # "none"
  THEN CHOOSE k \in 1..Len(items) :
         /\ ItemRaises(items[k]) # "none"
         /\ \A j \in 1..(k - 1) : ItemRaises(items[j]) = "none"
  ELSE 0

\* create_content_slide as the interpreter runs it: the blocks appended and the
\* exception raised; when an item raises, the title, the blocks of the items
\* before it and its own first blocks are in the story, the page break is not
ContentSlideOutcome(v, title, content_items) ==
  LET k == FirstRaising(content_items)
  IN  IF k = 0
      THEN [blocks |-> ContentSlideBlocks(v, title, content_items), raised |-> "none"]
      ELSE LET before == ContentSlideBlocks(v, title, SubSeq(content_items, 1, k - 1))
           IN  [blocks |-> SubSeq(before, 1, Len(before) - 1)
                             \o ItemPartialBlocks(content_items[k]),
                raised |-> ItemRaises(content_items[k])]

Variants == {"cp", "ip", "v2"}

NoCall == [op |-> "none", args |-> <<>>]
Call(op, args) == [op |-> op, args |-> args]

\* the module as loaded: ALL_PROMPTS = [] (v2), create_presentation not yet called
ScriptLoaded ==
  /\ story = <<>>
  /\ ALL_PROMPTS = <<>>
  /\ page_num = 0
  /\ dpc = "idle"
  /\ promptsFile = "none"
  /\ printed = <<>>
  /\ handoffs = <<>>
  /\ raised = "none"
  /\ writable = TRUE
  /\ runs = 0
  /\ slides = 0
  /\ handsCalls = <<>>
  /\ lastCall = NoCall

\* a run that starts with an empty prompt list
create_presentation_FreshPrompts ==
  /\ dpc \in {"idle", "done"}
  /\ runs < MaxRuns
  /\ story' = <<>>
  /\ ALL_PROMPTS' = <<>>
  /\ page_num' = IF HasPrompts(variant) THEN 1 ELSE page_num
  /\ dpc' = "building"
  /\ runs' = runs + 1
  /\ slides' = 0
  /\ handoffs' = <<>>
  /\ lastCall' = NoCall
  /\ UNCHANGED <<variant, promptsFile, printed, raised, writable, handsCalls>>

\* create_presentation, entry: story = [] (and page_num = 1 in v2)
create_presentation ==
  /\ dpc \in {"idle", "done"}
  /\ runs < MaxRuns
  /\ story' = <<>>
  /\ page_num' = IF HasPrompts(variant) THEN 1 ELSE page_num
  /\ dpc' = "building"
  /\ runs' = runs + 1
  /\ slides' = 0
  /\ handoffs' = <<>>
  /\ lastCall' = NoCall
  /\ UNCHANGED <<variant, ALL_PROMPTS, promptsFile, printed, raised, writable,
                 handsCalls>>

\* call sites that do not count the slide
AfterSlide_NoCount ==
  /\ slides' = slides + 1
  /\ page_num' = page_num
  /\ UNCHANGED <<variant, dpc, promptsFile, printed, handoffs, raised, writable, runs>>

\* what every create_*_slide call site leaves alone; v2 follows each call with
\* page_num += 1
AfterSlide ==
  /\ slides' = slides + 1
  /\ page_num' = IF HasPrompts(variant) THEN page_num + 1 ELSE page_num
  /\ UNCHANGED <<variant, dpc, promptsFile, printed, handoffs, raised, writable, runs>>

\* a title slide that also starts the prompt list afresh
create_title_slide_ResetsPrompts ==
  /\ dpc = "building"
  /\ story' = story \o TitleSlideBlocks(variant)
  /\ lastCall' = Call("create_title_slide", <<>>)
  /\ AfterSlide
  /\ ALL_PROMPTS' = <<>>
  /\ UNCHANGED handsCalls

create_title_slide ==
  /\ dpc = "building"
  /\ story' = story \o TitleSlideBlocks(variant)
  /\ lastCall' = Call("create_title_slide", <<>>)
  /\ AfterSlide
  /\ UNCHANGED <<ALL_PROMPTS, handsCalls>>

\* a section slide put in front of the blocks already there
create_section_slide_InFront(title) ==
  /\ dpc = "building"
  /\ story' = SectionSlideBlocks(variant, title) \o story
  /\ lastCall' = Call("create_section_slide", <<title>>)
  /\ AfterSlide
  /\ UNCHANGED <<ALL_PROMPTS, handsCalls>>

create_section_slide(title) ==
  /\ dpc = "building"
  /\ story' = story \o SectionSlideBlocks(variant, title)
  /\ lastCall' = Call("create_section_slide", <<title>>)
  /\ AfterSlide
  /\ UNCHANGED <<ALL_PROMPTS, handsCalls>>

\* create_content_slide; an exception leaves create_presentation at once, so
\* neither the page break nor the caller's next statement is executed
create_content_slide(title, content_items) ==
  /\ dpc = "building"
  /\ lastCall' = Call("create_content_slide", <<title, content_items>>)
  /\ LET out == ContentSlideOutcome(variant, title, content_items)
     IN  /\ story' = story \o out.blocks
         /\ IF out.raised = "none"
            THEN AfterSlide
            ELSE /\ raised' = out.raised
                 /\ dpc' = "failed"
                 /\ UNCHANGED <<variant, page_num, promptsFile, printed, handoffs,
                                writable, runs, slides>>
  /\ UNCHANGED <<ALL_PROMPTS, handsCalls>>

\* create_hands_on_slide; v2 takes page_num and first records the prompt
create_hands_on_slide(title, prompt, expected_result) ==
  /\ dpc = "building"
  /\ HasHandsOn(variant)
  /\ ALL_PROMPTS' =
       IF HasPrompts(variant)
       THEN Append(ALL_PROMPTS, PromptRecord(title, prompt, expected_result, page_num))
       ELSE ALL_PROMPTS
  /\ story' = story \o HandsOnSlideBlocks(variant, title, prompt, expected_result)
  /\ handsCalls' = Append(handsCalls,
       [run |-> runs, slide |-> slides + 1, page |-> page_num, title |-> title,
        prompt |-> prompt, expected |-> expected_result])
  /\ lastCall' = Call("create_hands_on_slide", <<title, prompt, expected_result>>)
  /\ AfterSlide

\* a code slide that leaves its title out when the story already holds blocks
create_code_slide_Continued(title, language, code_text) ==
  /\ dpc = "building"
  /\ HasCode(variant)
  /\ story' = story \o (IF story = <<>>
                         THEN CodeSlideBlocks(variant, title, language, code_text)
                         ELSE Tail(CodeSlideBlocks(variant, title, language, code_text)))
  /\ lastCall' = Call("create_code_slide", <<title, language, code_text>>)
  /\ AfterSlide
  /\ UNCHANGED <<ALL_PROMPTS, handsCalls>>

create_code_slide(title, language, code_text) ==
  /\ dpc = "building"
  /\ HasCode(variant)
  /\ story' = story \o CodeSlideBlocks(variant, title, language, code_text)
  /\ lastCall' = Call("create_code_slide", <<title, language, code_text>>)
  /\ AfterSlide
  /\ UNCHANGED <<ALL_PROMPTS, handsCalls>>

create_two_column_slide(title, left_title, left_items, right_title, right_items) ==
  /\ dpc = "building"
  /\ HasTwoColumn(variant)
  /\ story' = story \o TwoColumnSlideBlocks(variant, title, left_title, left_items,
                                           right_title, right_items)
  /\ lastCall' = Call("create_two_column_slide",
                      <<title, left_title, left_items, right_title, right_items>>)
  /\ AfterSlide
  /\ UNCHANGED <<ALL_PROMPTS, handsCalls>>

\* the closing slide, appended by create_presentation itself
final_slide ==
  /\ dpc = "building"
  /\ story' = story \o FinalSlideBlocks(variant)
  /\ dpc' = "assembled"
  /\ UNCHANGED <<variant, ALL_PROMPTS, page_num, promptsFile, printed, handoffs, raised,
                 writable, runs, slides, handsCalls, lastCall>>

\* doc.build(story, canvasmaker=NumberedCanvas): the layout engine takes the
\* flowables off the list it is given, one by one, until the list is empty
build ==
  /\ dpc = "assembled"
  /\ handoffs' = Append(handoffs, story)
  /\ story' = <<>>
  /\ dpc' = "built"
  /\ UNCHANGED <<variant, ALL_PROMPTS, page_num, promptsFile, printed, raised, writable,
                 runs, slides, handsCalls, lastCall>>

\* ---- doc.build step by step, on the overlay
\* what is left alone by every step of doc.build but the story and the position
BuildFrame ==
  UNCHANGED <<variant, ALL_PROMPTS, page_num, promptsFile, printed, handoffs, raised,
              writable, runs, slides, handsCalls, lastCall>>

\* the marks a flowable leaves on the page: a Spacer only takes room
FlowOps(f) == IF f.kind = "Spacer" THEN <<>> ELSE << <<"draw", f>> >>

\* a build started before the closing slide is appended
build_begin_Early ==
  /\ dpc = "building"
  /\ slides >= 1
  /\ handoffs' = Append(handoffs, story)
  /\ dpc' = "hanging"
  /\ CanvasNew
  /\ UNCHANGED <<variant, story, ALL_PROMPTS, page_num, promptsFile, printed, raised,
                 writable, runs, slides, handsCalls, lastCall>>

\* doc.build(story, canvasmaker=NumberedCanvas), entry: the list is handed over
\* and the canvas is made; the first page is pending until a flowable needs it
build_begin ==
  /\ dpc = "assembled"
  /\ handoffs' = Append(handoffs, story)
  /\ dpc' = "hanging"
  /\ CanvasNew
  /\ UNCHANGED <<variant, story, ALL_PROMPTS, page_num, promptsFile, printed, raised,
                 writable, runs, slides, handsCalls, lastCall>>

\* the frame of a page is full when it holds FrameCap drawn flowables
FrameFull == Len(code) >= FrameCap

\* the loop of build: the first flowable is handled; a PageBreak ends the page
\* (canv.showPage()); a flowable that does not fit the frame ends the page and
\* stays first in the list; anything else is taken off the list and drawn
layout_flowable ==
  /\ dpc \in {"hanging", "page"}
  /\ story # <<>>
  /\ IF Head(story).kind = "PageBreak"
       THEN /\ capturePage
            /\ story' = Tail(story)
            /\ dpc' = "hanging"
       ELSE IF FlowOps(Head(story)) # <<>> /\ FrameFull
       THEN /\ capturePage
            /\ story' = story
            /\ dpc' = "hanging"
       ELSE /\ cpc = "ready"
            /\ code' = code \o FlowOps(Head(story))
            /\ story' = Tail(story)
            /\ dpc' = "page"
            /\ UNCHANGED <<pageNumber, saved_page_states, docPages, outFile, cpc,
                           num_pages, idx, captured, saveCalls, shownAtSave, docAtSave,
                           drawn>>
  /\ BuildFrame

\* _endBuild: the page in progress, if any, is ended; canv.save() follows
end_pages ==
  /\ dpc \in {"hanging", "page"}
  /\ story = <<>>
  /\ IF dpc = "page" THEN capturePage ELSE UNCHANGED canvasVars
  /\ dpc' = "saving"
  /\ UNCHANGED story
  /\ BuildFrame

\* canv.save(): the steps of NumberedCanvas.save up to the write
save_step ==
  /\ dpc = "saving"
  /\ (saveBegin \/ saveRestore \/ saveFooter \/ saveCommit)
  /\ UNCHANGED deckVars

\* canv.save(): the file is written and doc.build returns
build_written ==
  /\ dpc = "saving"
  /\ writable
  /\ saveFinish
  /\ dpc' = "built"
  /\ UNCHANGED story
  /\ BuildFrame

\* a build whose write error is swallowed
build_fails_Recovers ==
  /\ dpc = "saving"
  /\ ~writable
  /\ saveFails
  /\ raised' = "OSError"
  /\ dpc' = "built"
  /\ UNCHANGED <<variant, story, ALL_PROMPTS, page_num, promptsFile, printed, handoffs,
                 writable, runs, slides, handsCalls, lastCall>>

\* canv.save() raises because the output path cannot be opened: nothing in
\* create_presentation catches it
build_fails ==
  /\ dpc = "saving"
  /\ ~writable
  /\ saveFails
  /\ raised' = "OSError"
  /\ dpc' = "failed"
  /\ UNCHANGED <<variant, story, ALL_PROMPTS, page_num, promptsFile, printed, handoffs,
                 writable, runs, slides, handsCalls, lastCall>>

\* a success message printed while the canvas is still being saved
print_created_Early ==
  /\ dpc = "saving"
  /\ cpc = "loop"
  /\ idx > Len(saved_page_states)
  /\ printed' = Append(printed, "presentation created")
  /\ dpc' = IF HasPrompts(variant) THEN "pdf_printed" ELSE "done"
  /\ UNCHANGED <<variant, story, ALL_PROMPTS, page_num, promptsFile, handoffs, raised,
                 writable, runs, slides, handsCalls, lastCall>>

\* print("... presentation created: ...")
print_created ==
  /\ dpc = "built"
  /\ printed' = Append(printed, "presentation created")
  /\ dpc' = IF HasPrompts(variant) THEN "pdf_printed" ELSE "done"
  /\ UNCHANGED <<variant, story, ALL_PROMPTS, page_num, promptsFile, handoffs, raised,
                 writable, runs, slides, handsCalls, lastCall>>

\* export_prompts_to_markdown(): open('prompts.md', 'w') and the writes
export_prompts_to_markdown ==
  /\ dpc = "pdf_printed"
  /\ promptsFile' = PromptsMarkdown(ALL_PROMPTS)
  /\ dpc' = "exported"
  /\ UNCHANGED <<variant, story, ALL_PROMPTS, page_num, printed, handoffs, raised,
                 writable, runs, slides, handsCalls, lastCall>>

\* print("... Prompts exported to: prompts.md")
print_exported ==
  /\ dpc = "exported"
  /\ printed' = Append(printed, "prompts exported")
  /\ dpc' = "done"
  /\ UNCHANGED <<variant, story, ALL_PROMPTS, page_num, promptsFile, handoffs, raised,
                 writable, runs, slides, handsCalls, lastCall>>

\* ------------------------------------------------------------- the inputs

Titles == {<<"T">>}
Strs == {<<"a">>, <<"b">>}
Headings == {<<"h">>}
Languages == {<<"g", "o">>}
Expecteds == {<<"e">>}

\* sequences over S of length at most n
SeqsUpTo(S, n) == UNION {[1..k -> S] : k \in 0..n}

Items(maxSubs) ==
  {StrItem(t) : t \in Strs}
    \cup {TupleItem(h, subs) : h \in Headings, subs \in SeqsUpTo(Strs, maxSubs)}

ItemLists(maxItems, maxSubs) == SeqsUpTo(Items(maxSubs), maxItems)

\* a code string of n lines: line i reads i, line k (if any) is empty
RECURSIVE NumberedLines(_, _)
NumberedLines(n, k) ==
  IF n = 0 THEN <<>>
  ELSE NumberedLines(n - 1, k)
         \o (IF n = 1 THEN <<>> ELSE <<NL>>)
         \o (IF n = k THEN <<>> ELSE Str(n))

LongCodes == {NumberedLines(n, k) : n \in 1..MaxCodeLines, k \in 0..MaxCodeLines}

\* content lists over every shape of item
AnyItems ==
  Items(1) \cup {Tuple0Item, ListItem(<<"h">>)}
    \cup {Tuple1Item(h) : h \in Headings}
    \cup {TupleNumItem(h) : h \in Headings}
    \cup {TupleStrItem(h, <<"a", "b">>) : h \in Headings}

AnyItemLists(maxItems) == SeqsUpTo(AnyItems, maxItems)

\* prompts with the newline first, last, inside and absent
Prompts == {<<"p">>, <<NL, "p">>, <<"p", NL>>, <<"p", NL, "q">>}

\* code with a newline and a space
Codes == {<<"c">>, <<"c", " ", "d", NL, "e">>}

SlideStep ==
  \/ create_title_slide
  \/ \E t \in Titles : create_section_slide(t)
  \/ \E t \in Titles, items \in ItemLists(1, 1) : create_content_slide(t, items)
  \/ \E t \in Titles, p \in Prompts, e \in Expecteds :
        /\ Len(handsCalls) < MaxPrompts
        /\ create_hands_on_slide(t, p, e)
  \/ \E t \in Titles, l \in Languages, c \in Codes : create_code_slide(t, l, c)
  \/ \E t \in Titles, li \in {<<>>, << <<"a">> >>}, ri \in {<<>>, << <<"b">> >>} :
        create_two_column_slide(t, <<"L">>, li, <<"R">>, ri)

NextDeck ==
  \/ create_presentation /\ UNCHANGED canvasVars
  \/ slides < MaxSlides /\ SlideStep /\ UNCHANGED canvasVars
  \/ final_slide /\ UNCHANGED canvasVars
  \/ build /\ UNCHANGED canvasVars
  \/ print_created /\ UNCHANGED canvasVars
  \/ export_prompts_to_markdown /\ UNCHANGED canvasVars
  \/ print_exported /\ UNCHANGED canvasVars

\* one content slide on an empty story, over all item lists
NextContent ==
  /\ slides < 1
  /\ \E t \in Titles, items \in ItemLists(MaxItems, MaxSubs) : create_content_slide(t, items)
  /\ UNCHANGED canvasVars

\* a deck of at most MaxRunSlides slides and the closing slide
RunSlideStep ==
  \/ create_title_slide
  \/ \E t \in Titles : create_section_slide(t)
  \/ \E t \in Titles : create_content_slide(t, << StrItem(<<"a">>) >>)
  \/ \E t \in Titles, e \in Expecteds :
        /\ Len(handsCalls) < MaxPrompts
        /\ create_hands_on_slide(t, <<"p", NL, "q">>, e)

\* a deck whose slides carry their ordinal as title, one of them longer than a page
LongItems == [i \in 1..FrameCap |-> StrItem(<<"a">>)]

LayoutSlideStep ==
  \/ create_section_slide(Str(slides + 1))
  \/ create_content_slide(Str(slides + 1), LongItems)
  \/ /\ Len(handsCalls) < MaxPrompts
     /\ create_hands_on_slide(Str(slides + 1), <<"p">>, <<"e">>)

\* a run of the prompt-export script laid out on pages of FrameCap flowables
NextLayout ==
  \/ create_presentation /\ UNCHANGED canvasVars
  \/ slides < MaxLayoutSlides /\ LayoutSlideStep /\ UNCHANGED canvasVars
  \/ final_slide /\ UNCHANGED canvasVars
  \/ build_begin
  \/ layout_flowable
  \/ end_pages
  \/ save_step
  \/ build_written
  \/ print_created /\ UNCHANGED canvasVars
  \/ export_prompts_to_markdown /\ UNCHANGED canvasVars
  \/ print_exported /\ UNCHANGED canvasVars

\* a run of create_presentation with doc.build taken step by step
NextRun ==
  \/ create_presentation /\ UNCHANGED canvasVars
  \/ slides < MaxRunSlides /\ RunSlideStep /\ UNCHANGED canvasVars
  \/ final_slide /\ UNCHANGED canvasVars
  \/ build_begin
  \/ layout_flowable
  \/ end_pages
  \/ save_step
  \/ build_written
  \/ build_fails
  \/ print_created /\ UNCHANGED canvasVars
  \/ export_prompts_to_markdown /\ UNCHANGED canvasVars
  \/ print_exported /\ UNCHANGED canvasVars

\* one two-column slide on an empty story, over all pairs of item lists
NextColumns ==
  /\ slides < 1
  /\ \E t \in Titles, li \in SeqsUpTo(Strs, MaxColItems), ri \in SeqsUpTo(Strs, MaxColItems) :
        create_two_column_slide(t, <<"L">>, li, <<"R">>, ri)
  /\ UNCHANGED canvasVars

\* one code slide on an empty story, over code strings of up to MaxCodeLines lines
NextCode ==
  /\ slides < 1
  /\ \E t \in Titles, l \in Languages, c \in LongCodes : create_code_slide(t, l, c)
  /\ UNCHANGED canvasVars

\* one content slide on an empty story, over item lists of every shape
NextItems ==
  /\ slides < 1
  /\ \E t \in Titles, items \in AnyItemLists(MaxItems) : create_content_slide(t, items)
  /\ UNCHANGED canvasVars

\* --------------------------------------------------------- specifications

CanvasInit == CanvasFresh /\ variant = "cp" /\ ScriptLoaded

DeckInit == CanvasFresh /\ variant \in Variants /\ ScriptLoaded

ContentInit ==
  /\ CanvasFresh
  /\ variant \in Variants
  /\ story = <<>>
  /\ ALL_PROMPTS = <<>>
  /\ page_num = IF HasPrompts(variant) THEN 1 ELSE 0
  /\ dpc = "building"
  /\ promptsFile = "none"
  /\ printed = <<>>
  /\ handoffs = <<>>
  /\ raised = "none"
  /\ writable = TRUE
  /\ runs = 1
  /\ slides = 0
  /\ handsCalls = <<>>
  /\ lastCall = NoCall

SpecCanvas == CanvasInit /\ [][NextCanvas]_vars

\* the overlay of each of the three scripts, under the same calls
OverlaysInit == CanvasFresh /\ variant \in Variants /\ ScriptLoaded

SpecOverlays == OverlaysInit /\ [][NextCanvas]_vars

SpecDeck == DeckInit /\ [][NextDeck]_vars

\* the script as loaded, on a machine where the output path may be unwritable
RunInit ==
  /\ CanvasFresh
  /\ variant \in Variants
  /\ story = <<>>
  /\ ALL_PROMPTS = <<>>
  /\ page_num = 0
  /\ dpc = "idle"
  /\ promptsFile = "none"
  /\ printed = <<>>
  /\ handoffs = <<>>
  /\ raised = "none"
  /\ writable \in BOOLEAN
  /\ runs = 0
  /\ slides = 0
  /\ handsCalls = <<>>
  /\ lastCall = NoCall

LayoutInit == CanvasFresh /\ variant = "v2" /\ ScriptLoaded

SpecLayout == LayoutInit /\ [][NextLayout]_vars

SpecRun == RunInit /\ [][NextRun]_vars

ColumnsInit == ContentInit /\ HasTwoColumn(variant)

SpecColumns == ColumnsInit /\ [][NextColumns]_vars

CodeInit == ContentInit /\ variant = "ip"

SpecCode == CodeInit /\ [][NextCode]_vars

SpecItems == ContentInit /\ [][NextItems]_vars

SpecContent == ContentInit /\ [][NextContent]_vars

\* ------------------------------------------------ properties of the overlay

\* the draw operations of a page without the footer marks
Content(page) == SelectSeq(page, LAMBDA op : ~IsFooterOp(op))

\* the footer texts on a page, in drawing order
FooterTexts(page) == SelectSeq(page, IsFooterText)

\* the pages the running/last save has committed so far
CommittedBySave == SubSeq(docPages, docAtSave + 1, Len(docPages))

SaveDone == saveCalls > 0 /\ cpc = "ready"

\* C1: a save called after N showPage calls draws exactly N footers, the i-th
\* reading "Page i of N", on the i-th page it commits; N is the length of the
\* captured-state list when save was called and is the same in every footer.
C1_FootersNumbered ==
  /\ cpc # "ready" => num_pages = shownAtSave
  /\ \A i \in 1..Len(drawn) : drawn[i] = PageText(i, shownAtSave)
  /\ \A i \in 1..Len(CommittedBySave) :
        /\ i <= Len(drawn)
        /\ CommittedBySave[i][Len(CommittedBySave[i])] = <<"text", drawn[i]>>
  /\ SaveDone => /\ Len(drawn) = shownAtSave
                 /\ num_pages = shownAtSave
                 /\ Len(CommittedBySave) = shownAtSave

C1_Witness ==
  /\ SaveDone /\ saveCalls = 1
  /\ shownAtSave = 3
  /\ drawn = <<PageText(1, 3), PageText(2, 3), PageText(3, 3)>>
  /\ Len(docPages) = 3

\* C2: the pages a save commits are the captured pages, in capture order, each
\* once: the k-th page committed has the draw state of the k-th showPage call.
C2_OrderPreserved ==
  /\ \A i \in 1..Len(CommittedBySave) :
        i <= Len(captured) /\ Content(CommittedBySave[i]) = captured[i]
  /\ SaveDone => Len(CommittedBySave) = shownAtSave
  /\ saveCalls = 1 /\ cpc = "ready" =>
        outFile = docPages /\ Len(outFile) = shownAtSave

C2_Witness ==
  /\ SaveDone /\ saveCalls = 1
  /\ Len(docPages) = 3
  /\ Content(docPages[1]) # Content(docPages[2])
  /\ Content(docPages[2]) # Content(docPages[3])
  /\ \A i \in 1..3 : Content(docPages[i]) = captured[i]

\* C3: before save is called, each showPage call appends exactly one snapshot
\* of the current draw state to the list and starts a blank page; no page is
\* committed and no footer is drawn.
Accumulating == saveCalls = 0 /\ cpc = "ready"

C3_AccumulatingDefers ==
  /\ [](Accumulating =>
          /\ docPages = <<>> /\ outFile = "none" /\ drawn = <<>>
          /\ FooterTexts(code) = <<>>
          /\ \A i \in 1..Len(saved_page_states) :
                FooterTexts(saved_page_states[i].code) = <<>>)
  /\ [][(Accumulating /\ Len(captured') > Len(captured)) =>
          /\ saved_page_states' =
                Append(saved_page_states, [pageNumber |-> pageNumber, code |-> code])
          /\ code' = <<>>
          /\ Accumulating'
          /\ docPages' = docPages]_vars

C3_Witness ==
  /\ Accumulating
  /\ Len(saved_page_states) = 2
  /\ saved_page_states[1].code # <<>>
  /\ saved_page_states[2].code # saved_page_states[1].code
  /\ code = <<>>

\* C4: once a save has completed, the output is sealed: no later showPage, draw
\* or save changes the committed pages or the written file.
C4_SealedAfterSave ==
  [][saveCalls >= 1 => (docPages' = docPages /\ outFile' = outFile)]_vars

\* ---------------------------------------------- properties of the assembler

IsPrefix(p, q) == Len(p) <= Len(q) /\ SubSeq(q, 1, Len(p)) = p

\* the blocks a step has appended to the story
Appended(old, new) == SubSeq(new, Len(old) + 1, Len(new))

Paragraphs(blocks) == SelectSeq(blocks, LAMBDA b : b.kind = "Paragraph")

\* what a body paragraph of a content slide shows, read off its markup:
\* the form (top-level bullet, heading, sub-bullet) and the text
LineOf(par) ==
  LET t == par.text
      body == SubSeq(t, 3, Len(t) - 1)
  IN  IF t[1] = "<font color=#5B5B5B size=14>" /\ t[2] = Bullet
        THEN <<"bullet", body>>
      ELSE IF t[1] = "<font color=#5B5B5B size=14>" /\ t[2] = "<b>"
        THEN <<"heading", SubSeq(t, 3, Len(t) - 2)>>
      ELSE IF t[1] = "<font color=#666666 size=12>" /\ t[2] = SubBullet
        THEN <<"sub", body>>
      ELSE <<"other", t>>

\* the lines shown below the title of the last content slide
ShownLines ==
  LET pars == Paragraphs(story)
  IN  [i \in 1..(Len(pars) - 1) |-> LineOf(pars[i + 1])]

\* the lines a list of items asks for
RECURSIVE WantedLines(_)
WantedLines(items) ==
  IF items = <<>> THEN <<>>
  ELSE LET it == Head(items)
       IN  (IF it.tag = "str" THEN << <<"bullet", it.head>> >>
            ELSE << <<"heading", it.head>> >>
                 \o [j \in 1..Len(it.subs) |-> <<"sub", it.subs[j]>>])
           \o WantedLines(Tail(items))

ContentCalled == slides = 1 /\ lastCall.op = "create_content_slide"

\* C5: a (heading, [sub-items]) item is shown as its heading followed by one
\* sub-bullet line per sub-item, all of them, in input order, each in the
\* sub-bullet form (own indent glyph, colour and size), which no top-level
\* bullet has.
C5_SubItemsInOrder ==
  ContentCalled =>
    /\ ShownLines = WantedLines(lastCall.args[2])
    /\ \A i \in 1..Len(Paragraphs(story)) :
         LET par == Paragraphs(story)[i]
         IN  (i > 1 /\ LineOf(par)[1] = "sub") =>
               /\ par.text[1] # "<font color=#5B5B5B size=14>"
               /\ par.text[2] = SubBullet /\ SubBullet # Bullet

C5_Witness ==
  /\ ContentCalled
  /\ \E k \in 1..Len(lastCall.args[2]) :
       /\ lastCall.args[2][k] = TupleItem(<<"h">>, << <<"a">>, <<"b">> >>)
       /\ \E i \in 1..(Len(ShownLines) - 2) :
            /\ ShownLines[i] = <<"heading", <<"h">> >>
            /\ ShownLines[i + 1] = <<"sub", <<"a">> >>
            /\ ShownLines[i + 2] = <<"sub", <<"b">> >>

\* position, among the shown lines, of the first line of item k
RECURSIVE LinePos(_, _)
LinePos(items, k) ==
  IF k = 1 THEN 1
  ELSE LinePos(items, k - 1)
       + (IF items[k - 1].tag = "tuple" THEN 1 + Len(items[k - 1].subs) ELSE 1)

\* C6: for a (heading, []) item create_content_slide still emits the heading
\* block, and no sub-bullet line follows it.
C6_EmptySubItems ==
  ContentCalled =>
    LET items == lastCall.args[2]
    IN  \A k \in 1..Len(items) :
          (items[k].tag = "tuple" /\ items[k].subs = <<>>) =>
            LET pos == LinePos(items, k)
            IN  /\ pos <= Len(ShownLines)
                /\ ShownLines[pos] = <<"heading", items[k].head>>
                /\ pos < Len(ShownLines) => ShownLines[pos + 1][1] # "sub"

C6_Witness ==
  /\ ContentCalled
  /\ lastCall.args[2] = << TupleItem(<<"h">>, <<>>) >>
  /\ ShownLines = << <<"heading", <<"h">> >> >>

\* ------------------------------------------------ properties of the export

\* positions of token t in text q, in increasing order
Positions(q, t) ==
  LET idxs == {i \in 1..Len(q) : q[i] = t}
      RECURSIVE Sorted(_)
      Sorted(S) == IF S = {} THEN <<>>
                   ELSE LET m == CHOOSE x \in S : \A y \in S : x <= y
                        IN  <<m>> \o Sorted(S \ {m})
  IN  Sorted(idxs)

\* the headed sections of a side-car text: each runs from a "## Page " heading
\* up to the next heading or the end of the text
SectionsOf(text) ==
  LET hs == Positions(text, "## Page ")
  IN  [k \in 1..Len(hs) |->
         SubSeq(text, hs[k], IF k < Len(hs) THEN hs[k + 1] - 1 ELSE Len(text))]

\* the text between the first fence line of a section and the next fence line
Fenced(sec) ==
  LET fs == Positions(sec, FENCE)
  IN  IF Len(fs) < 2 THEN <<"no fenced block">>
      ELSE SubSeq(sec, fs[1] + 2, fs[2] - 2)

\* the text below the EXPECTED RESULT label, up to the blank line before the rule
ExpectedOf(sec) ==
  LET es == Positions(sec, "**EXPECTED RESULT:**")
  IN  IF Len(es) < 1 THEN <<"no expected result">>
      ELSE SubSeq(sec, es[1] + 2, Len(sec) - 5)

Exported == variant = "v2" /\ dpc \in {"exported", "done"}

\* C7: when the hands-on blocks of the process were created in one deck build,
\* the exported side-car has exactly one headed section per hands-on block, in
\* the order the blocks were appended, headed "## Page <page>: <title>" with the
\* block's page number and title and ended by the "---" rule.
C7_OneSectionPerBlock ==
  (Exported /\ runs = 1) =>
    LET secs == SectionsOf(promptsFile)
    IN  /\ Len(secs) = Len(handsCalls)
        /\ IsPrefix(PromptsHeader, promptsFile)
        /\ \A k \in 1..Len(secs) :
             /\ IsPrefix(<<"## Page ">> \o Str(handsCalls[k].page) \o <<": ">>
                           \o handsCalls[k].title \o <<NL, NL>>, secs[k])
             /\ SubSeq(secs[k], Len(secs[k]) - 2, Len(secs[k])) = <<"---", NL, NL>>
             /\ Len(Positions(secs[k], "---")) = 1

C7_Witness ==
  /\ Exported /\ runs = 1
  /\ Len(handsCalls) = 2
  /\ handsCalls[1].prompt # handsCalls[2].prompt
  /\ Len(SectionsOf(promptsFile)) = 2
  /\ IsPrefix(<<"## Page ", "1", ": ">>, SectionsOf(promptsFile)[1])
  /\ IsPrefix(<<"## Page ", "2", ": ">>, SectionsOf(promptsFile)[2])

\* C8: the k-th section of the side-car reproduces the prompt and the expected
\* result of the k-th create_hands_on_slide call exactly as passed (newlines
\* kept, not the <br/> form of the slide), and the text between the section's
\* fence lines is exactly the prompt.
C8_PromptRoundTrip ==
  Exported =>
    LET secs == SectionsOf(promptsFile)
    IN  /\ Len(secs) = Len(handsCalls)
        /\ \A k \in 1..Len(secs) :
             /\ Fenced(secs[k]) = handsCalls[k].prompt
             /\ ExpectedOf(secs[k]) = handsCalls[k].expected

C8_Witness ==
  /\ Exported
  /\ Len(handsCalls) >= 1
  /\ handsCalls[1].prompt = <<"p", NL, "q">>
  /\ Fenced(SectionsOf(promptsFile)[1]) = <<"p", NL, "q">>
  /\ \E i \in 1..Len(handoffs[1]) :
       handoffs[1][i].text = PromptBoxText("v2", <<"p", NL, "q">>)
  /\ PromptBoxText("v2", <<"p", NL, "q">>)[3] = BR

\* ----------------------------------------- properties of the block sequence

CountBreaks(blocks) == Len(SelectSeq(blocks, LAMBDA b : b.kind = "PageBreak"))

\* C9: while a deck is assembled, the story before each step is a prefix of
\* the story after it: blocks are only added at the end, none is removed,
\* moved or changed.
C9_AppendOnly ==
  [][(dpc = "building" /\ runs' = runs) => IsPrefix(story, story')]_vars

C9_Witness ==
  /\ dpc = "building"
  /\ slides = 2
  /\ lastCall.op = "create_code_slide"
  /\ Len(story) > 6
  /\ story[1].kind = "Spacer"

\* C10: every create_*_slide call appends at least one block, the last block
\* it appends is a page break, and no other block it appends is one.
C10_OneBreakLast ==
  [][slides' = slides + 1 =>
       LET app == Appended(story, story')
       IN  /\ Len(story') > Len(story)
           /\ app[Len(app)] = PageBreak
           /\ CountBreaks(app) = 1
           /\ \A i \in 1..(Len(app) - 1) : app[i].kind # "PageBreak"]_vars

C10_Witness ==
  /\ slides = 2
  /\ lastCall.op = "create_hands_on_slide"
  /\ story[Len(story)] = PageBreak
  /\ CountBreaks(story) = 2

\* what a block-append call leaves alone besides the story and the prompt list
SlideFrame ==
  /\ promptsFile' = promptsFile
  /\ printed' = printed
  /\ handoffs' = handoffs
  /\ dpc' = dpc
  /\ variant' = variant
  /\ raised' = raised
  /\ writable' = writable
  /\ UNCHANGED canvasVars

\* C11 as stated: a block-append call changes nothing but the story, in
\* particular no process-wide state.
C11_OnlyStoryGrows ==
  [][slides' = slides + 1 => (SlideFrame /\ ALL_PROMPTS' = ALL_PROMPTS)]_vars

\* C11, amended: a block-append call grows the story and changes nothing else,
\* except that create_hands_on_slide of the prompt-export script also appends
\* one record (page, title, prompt, expected) to the process-wide ALL_PROMPTS.
C11_OnlyStoryAndPromptList ==
  [][slides' = slides + 1 =>
       /\ SlideFrame
       /\ IsPrefix(story, story') /\ Len(story') > Len(story)
       /\ IF variant = "v2" /\ lastCall'.op = "create_hands_on_slide"
          THEN ALL_PROMPTS' = Append(ALL_PROMPTS,
                 [page |-> page_num, title |-> lastCall'.args[1],
                  prompt |-> lastCall'.args[2], expected |-> lastCall'.args[3]])
          ELSE ALL_PROMPTS' = ALL_PROMPTS]_vars

C11_Witness ==
  /\ variant = "v2"
  /\ dpc = "building"
  /\ slides = 2
  /\ lastCall.op = "create_title_slide"
  /\ Len(ALL_PROMPTS) = 1
  /\ ALL_PROMPTS[1].page = 1

\* C12 as stated: no block-append operation raises; every call completes and
\* leaves its whole slide, page break included, in the story.
C12_NeverRaises ==
  lastCall.op = "create_content_slide" =>
    /\ raised = "none"
    /\ slides = 1
    /\ story # <<>> /\ story[Len(story)] = PageBreak

\* success messages a completed run prints
MsgsPerRun == IF HasPrompts(variant) THEN 2 ELSE 1

\* the step prints the message msg
Prints(msg) == printed' = Append(printed, msg)

\* C13: the events of one run occur in the order append, accumulate, finalize,
\* PDF written, PDF message, side-car written, side-car message; each message
\* is printed only after its file has been written.
C13_StraightPass ==
  [][/\ Len(story') > Len(story) =>
          dpc = "building" /\ handoffs = <<>> /\ Len(printed) = MsgsPerRun * (runs - 1)
     /\ Len(handoffs') > Len(handoffs) =>
          dpc = "assembled" /\ story # <<>> /\ handoffs' = <<story>>
     /\ Len(captured') > Len(captured) =>
          Len(handoffs) = 1 /\ docPages = <<>> /\ drawn = <<>> /\ saveCalls = 0
     /\ (Len(docPages') > Len(docPages) \/ Len(drawn') > Len(drawn)) =>
          story = <<>> /\ Len(captured) = Len(saved_page_states) /\ saveCalls = 0
     /\ saveCalls' > saveCalls =>
          Len(docPages) = Len(captured) /\ Len(drawn) = Len(captured)
            /\ outFile' = docPages /\ Len(printed) = MsgsPerRun * (runs - 1)
     /\ Prints("presentation created") =>
          saveCalls = 1 /\ outFile = docPages /\ Len(outFile) >= 1
            /\ Len(printed) = MsgsPerRun * (runs - 1)
     /\ (dpc' = "exported" /\ dpc # "exported") =>
          /\ Len(printed) = MsgsPerRun * (runs - 1) + 1
          /\ printed[Len(printed)] = "presentation created"
          /\ promptsFile' = PromptsMarkdown(ALL_PROMPTS)
     /\ Prints("prompts exported") =>
          /\ dpc = "exported"
          /\ promptsFile = PromptsMarkdown(ALL_PROMPTS)
          /\ Len(printed) = MsgsPerRun * (runs - 1) + 1]_vars

C13_Witness ==
  /\ dpc = "done"
  /\ variant = "v2"
  /\ runs = 1
  /\ printed = <<"presentation created", "prompts exported">>
  /\ Len(outFile) = 2
  /\ Len(ALL_PROMPTS) = 1
  /\ promptsFile = PromptsMarkdown(ALL_PROMPTS)

\* C14: a failing renderer build leaves create_presentation at once and for
\* good: nothing is retried, no success message is printed and the side-car
\* file is not written.
C14_BuildFailureIsFatal ==
  [][/\ (raised = "none" /\ raised' # "none") =>
          dpc' = "failed" /\ printed' = printed /\ promptsFile' = promptsFile
            /\ outFile' = outFile
     /\ raised # "none" => FALSE]_vars

C14_Witness ==
  /\ raised = "OSError"
  /\ dpc = "failed"
  /\ variant = "v2"
  /\ Len(ALL_PROMPTS) = 1
  /\ printed = <<>>
  /\ promptsFile = "none"
  /\ Len(docPages) = 2

\* C15: within one finalization each captured page goes through restore, footer,
\* commit in that order; snapshot i+1 is restored only when page i is committed;
\* the footer is drawn on the restored, not yet committed page, and a committed
\* page is never altered.
C15_RestoreFooterCommit ==
  [][/\ (cpc = "loop" /\ cpc' = "footer") =>
          /\ Len(CommittedBySave) = Len(drawn)
          /\ code' = saved_page_states[Len(drawn) + 1].code
          /\ pageNumber' = saved_page_states[Len(drawn) + 1].pageNumber
     /\ Len(drawn') > Len(drawn) =>
          /\ Len(CommittedBySave) = Len(drawn)
          /\ code = saved_page_states[Len(drawn) + 1].code
          /\ code' = code \o FooterOps(pageNumber, num_pages)
          /\ docPages' = docPages
     /\ Len(docPages') > Len(docPages) =>
          /\ Len(drawn) = Len(CommittedBySave) + 1
          /\ docPages' = Append(docPages, code)
          /\ code # <<>> /\ code[Len(code)] = <<"text", drawn[Len(drawn)]>>
     /\ IsPrefix(docPages, docPages')]_vars

C15_Witness ==
  /\ saveCalls = 0
  /\ cpc = "footer"
  /\ idx = 3
  /\ Len(drawn) = 2
  /\ Len(docPages) = 2
  /\ FooterTexts(docPages[2]) = << <<"text", PageText(2, 3)>> >>
  /\ FooterTexts(code) = <<>>

\* C16: once save has completed, the captured-state list holds no snapshot.
C16_SnapshotsDiscarded ==
  SaveDone => saved_page_states = <<>>

\* the blocks of a call, computed from the script and the call's arguments alone
BlocksOf(v, call) ==
  LET a == call.args
  IN  CASE call.op = "create_title_slide" -> TitleSlideBlocks(v)
        [] call.op = "create_section_slide" -> SectionSlideBlocks(v, a[1])
        [] call.op = "create_content_slide" -> ContentSlideOutcome(v, a[1], a[2]).blocks
        [] call.op = "create_hands_on_slide" -> HandsOnSlideBlocks(v, a[1], a[2], a[3])
        [] call.op = "create_code_slide" -> CodeSlideBlocks(v, a[1], a[2], a[3])
        [] call.op = "create_two_column_slide" ->
             TwoColumnSlideBlocks(v, a[1], a[2], a[3], a[4], a[5])
        [] OTHER -> <<>>

\* C17: what a block-append call appends depends on its arguments only: a call
\* repeated on a story that already holds its blocks appends the same blocks as
\* it did on the empty story, and after any other call the blocks appended are
\* those its arguments determine.
C17_ArgumentsOnly ==
  [][/\ (slides = 1 /\ slides' = 2 /\ lastCall' = lastCall) =>
          Appended(story, story') = story
     /\ slides' = slides + 1 =>
          Appended(story, story') = BlocksOf(variant, lastCall')]_vars

C17_Witness ==
  /\ dpc = "building"
  /\ slides = 2
  /\ lastCall.op = "create_code_slide"
  /\ Len(story) = 2 * Len(BlocksOf(variant, lastCall))
  /\ SubSeq(story, 1, Len(BlocksOf(variant, lastCall))) = BlocksOf(variant, lastCall)
  /\ Appended(BlocksOf(variant, lastCall), story) = BlocksOf(variant, lastCall)

\* the last n elements of a sequence
Last(q, n) == SubSeq(q, Len(q) - n + 1, Len(q))

\* C18: in a run the story is handed to the renderer exactly once, when every
\* slide and the closing slide are in it; after the hand-off nothing is appended
\* to it and it is not handed over again.
C18_HandedOnce ==
  [][/\ Len(handoffs') > Len(handoffs) =>
          /\ handoffs = <<>> /\ handoffs' = <<story>>
          /\ CountBreaks(story) = slides
          /\ Len(story) >= Len(FinalSlideBlocks(variant))
          /\ Last(story, Len(FinalSlideBlocks(variant))) = FinalSlideBlocks(variant)
     /\ (handoffs # <<>> /\ runs' = runs) =>
          handoffs' = handoffs /\ Len(story') <= Len(story)
     /\ Prints("presentation created") => Len(handoffs) = 1 /\ story = <<>>]_vars

C18_Witness ==
  /\ dpc = "done"
  /\ runs = 2
  /\ slides = 1
  /\ Len(handoffs) = 1
  /\ CountBreaks(handoffs[1]) = 1
  /\ Last(handoffs[1], Len(FinalSlideBlocks(variant))) = FinalSlideBlocks(variant)
  /\ story = <<>>

\* the document the overlay of create_presentation.py produces for a sequence
\* of captured pages
ReferencePages(pages) ==
  [i \in 1..Len(pages) |-> pages[i] \o FooterOps(i, Len(pages))]

\* C19: for every sequence of showPage calls followed by save, the overlays of
\* the three scripts commit the same pages in the same order with the same
\* footer texts: each produces the document the first script's overlay does.
C19_SameOverlay ==
  (SaveDone /\ saveCalls = 1) =>
    /\ docPages = ReferencePages(SubSeq(captured, 1, shownAtSave))
    /\ drawn = [i \in 1..shownAtSave |-> PageText(i, shownAtSave)]
    /\ outFile = docPages

C19_Witness ==
  /\ variant = "v2"
  /\ SaveDone /\ saveCalls = 1
  /\ shownAtSave = 3
  /\ Len(docPages) = 3
  /\ captured[1] # captured[2]
  /\ docPages = ReferencePages(captured)

\* the lines of a code string, read off the positions of its newlines
NewlinesOf(s) == {p \in 1..Len(s) : s[p] = NL}
LineCount(s) == Cardinality(NewlinesOf(s)) + 1
LineStart(s, i) ==
  IF i = 1 THEN 1
  ELSE 1 + (CHOOSE p \in NewlinesOf(s) :
              Cardinality({q \in NewlinesOf(s) : q < p}) = i - 2)
LineEnd(s, i) ==
  IF i = LineCount(s) THEN Len(s)
  ELSE (CHOOSE p \in NewlinesOf(s) :
          Cardinality({q \in NewlinesOf(s) : q < p}) = i - 1) - 1
LineAt(s, i) == SubSeq(s, LineStart(s, i), LineEnd(s, i))

\* the code-line paragraphs of a code slide of create_interactive_presentation.py:
\* the paragraphs after the title and the language label
CodeParagraphs(blocks) ==
  LET ps == Paragraphs(blocks) IN SubSeq(ps, 3, Len(ps))

Min(a, b) == IF a < b THEN a ELSE b

\* C20: create_code_slide of create_interactive_presentation.py shows the first
\* min(L, 20) of the L lines of the code string, one block each, in input
\* order, and drops the rest without error.
C20_TwentyLines ==
  (variant = "ip" /\ lastCall.op = "create_code_slide") =>
    LET c == lastCall.args[3]
        shown == CodeParagraphs(story)
    IN  /\ raised = "none" /\ slides = 1
        /\ Len(shown) = Min(LineCount(c), CodeLineLimit)
        /\ \A i \in 1..Len(shown) :
              shown[i].text = <<FontFace("#5B5B5B", "9", "Courier")>> \o LineAt(c, i)
                                \o <<EndFont>>
        /\ story[Len(story)] = PageBreak
        /\ CountBreaks(story) = 1

C20_Witness ==
  /\ variant = "ip"
  /\ lastCall.op = "create_code_slide"
  /\ LineCount(lastCall.args[3]) = 22
  /\ Len(CodeParagraphs(story)) = 20
  /\ CodeParagraphs(story)[20].text =
       <<FontFace("#5B5B5B", "9", "Courier"), "2", "0", EndFont>>
  /\ CodeParagraphs(story)[7].text = <<FontFace("#5B5B5B", "9", "Courier"), EndFont>>

\* C21: the replay loop of save runs exactly once per snapshot present when
\* save started and captures nothing: the captured-state list keeps its length
\* from the start of the loop to its end, so the loop ends after N iterations.
C21_ReplayCapturesNothing ==
  /\ cpc # "ready" =>
       /\ Len(saved_page_states) = shownAtSave
       /\ num_pages = shownAtSave
       /\ idx <= shownAtSave + 1
       /\ cpc = "loop" => (Len(drawn) = idx - 1 /\ Len(CommittedBySave) = idx - 1)
       /\ cpc = "footer" => (Len(drawn) = idx - 1 /\ Len(CommittedBySave) = idx - 1)
       /\ cpc = "commit" => (Len(drawn) = idx /\ Len(CommittedBySave) = idx - 1)
  /\ SaveDone => (Len(drawn) = shownAtSave /\ Len(CommittedBySave) = shownAtSave)

C21_Witness ==
  /\ cpc = "loop"
  /\ saveCalls = 0
  /\ shownAtSave = 3
  /\ idx = 4
  /\ Len(saved_page_states) = 3
  /\ Len(docPages) = 3

\* C22: between the block-append calls of a deck build the story is empty or
\* ends with a page break, holds as many page breaks as calls were made, and
\* has no page break at its head or next to another: no slide is an empty page.
C22_SlidesEndWithBreak ==
  dpc = "building" =>
    /\ story = <<>> \/ story[Len(story)] = PageBreak
    /\ CountBreaks(story) = slides
    /\ story # <<>> => story[1] # PageBreak
    /\ \A i \in 1..(Len(story) - 1) : ~(story[i] = PageBreak /\ story[i + 1] = PageBreak)

C22_Witness ==
  /\ dpc = "building"
  /\ slides = 2
  /\ CountBreaks(story) = 2
  /\ story[Len(story)] = PageBreak
  /\ lastCall.op = "create_title_slide"
  /\ Len(story) > 2 * Len(TitleSlideBlocks(variant))

\* C23: in the prompt-export script the page recorded for a hands-on slide is
\* the 1-based ordinal of that slide in its deck, which is one plus the number
\* of page breaks in the story when create_hands_on_slide is called; within a
\* deck the recorded pages increase strictly in append order.
C23_PageIsOrdinal ==
  /\ [](variant = "v2" =>
          /\ Len(ALL_PROMPTS) = Len(handsCalls)
          /\ \A i \in 1..Len(handsCalls) :
                ALL_PROMPTS[i].page = handsCalls[i].slide
          /\ \A i, j \in 1..Len(handsCalls) :
                (i < j /\ handsCalls[i].run = handsCalls[j].run) =>
                   ALL_PROMPTS[i].page < ALL_PROMPTS[j].page)
  /\ [][(variant = "v2" /\ Len(ALL_PROMPTS') > Len(ALL_PROMPTS)) =>
          ALL_PROMPTS'[Len(ALL_PROMPTS')].page = 1 + CountBreaks(story)]_vars

C23_Witness ==
  /\ variant = "v2"
  /\ runs = 1
  /\ slides = 2
  /\ Len(ALL_PROMPTS) = 1
  /\ ALL_PROMPTS[1].page = 2
  /\ lastCall.op = "create_hands_on_slide"
  /\ CountBreaks(story) = 2

\* ---- the slides of a deck, read off the story handed to the renderer
\* the segment of blocks number k: slide k, or the closing slide after the
\* last page break
BreaksOf(blocks) == {p \in 1..Len(blocks) : blocks[p] = PageBreak}
NthBreak(blocks, n) ==
  CHOOSE p \in BreaksOf(blocks) : Cardinality({q \in BreaksOf(blocks) : q < p}) = n - 1
Segment(blocks, k) ==
  SubSeq(blocks,
         IF k = 1 THEN 1 ELSE NthBreak(blocks, k - 1) + 1,
         IF k > CountBreaks(blocks) THEN Len(blocks) ELSE NthBreak(blocks, k) - 1)

\* the first flowable of a segment that leaves a mark
FirstDrawn(blocks) == Head(SelectSeq(blocks, LAMBDA f : f.kind # "Spacer"))

\* the output page on which segment k of the deck starts
StartPage(k) ==
  CHOOSE pg \in 1..Len(docPages) :
    \E o \in 1..Len(docPages[pg]) :
       docPages[pg][o] = <<"draw", FirstDrawn(Segment(handoffs[1], k))>>

\* slide j takes one page of the output: the next segment starts on the next page
OccupiesOnePage(j) == StartPage(j + 1) = StartPage(j) + 1

\* the number in the footer of an output page, "Page n of N"
FooterNumber(pg) == FooterTexts(docPages[pg])[1][2][2]

\* s occurs in t as a run of consecutive tokens
Occurs(s, t) ==
  \E off \in 0..(Len(t) - Len(s)) : SubSeq(t, off + 1, off + Len(s)) = s

\* the heading export_prompts_to_markdown writes for a record
HeadingOf(r) == <<"## Page ">> \o Str(r.page) \o <<": ">> \o r.title

\* C24: the page number in the side-car heading of a hands-on slide equals the
\* number in the footer of the PDF page on which the slide starts exactly when
\* every slide before it takes one page; when an earlier slide runs over more
\* than one page, the side-car number is the smaller one.
C24_SidecarVersusFooter ==
  (variant = "v2" /\ dpc \in {"exported", "done"}) =>
    \A i \in 1..Len(handsCalls) :
       handsCalls[i].run = runs =>
         LET k == handsCalls[i].slide
             r == ALL_PROMPTS[i]
             allOne == \A j \in 1..(k - 1) : OccupiesOnePage(j)
         IN  /\ Occurs(HeadingOf(r), promptsFile)
             /\ (r.page = FooterNumber(StartPage(k))) <=> allOne
             /\ ~allOne => r.page < FooterNumber(StartPage(k))

C24_Witness ==
  /\ variant = "v2"
  /\ dpc = "done"
  /\ runs = 1
  /\ Len(handsCalls) = 1
  /\ handsCalls[1].slide = 2
  /\ ALL_PROMPTS[1].page = 2
  /\ Len(docPages) = 4
  /\ ~OccupiesOnePage(1)
  /\ StartPage(2) = 3
  /\ FooterNumber(3) = 3

\* C25: ALL_PROMPTS lives as long as the process and is only appended to: it
\* holds one record per hands-on slide of every run of create_presentation so
\* far, and the side-car a run writes has the sections of all runs, in order.
C25_PromptsAccumulate ==
  /\ [][IsPrefix(ALL_PROMPTS, ALL_PROMPTS')]_vars
  /\ [](variant = "v2" =>
          /\ Len(ALL_PROMPTS) = Len(handsCalls)
          /\ \A i \in 1..Len(handsCalls) :
                ALL_PROMPTS[i] = [page |-> handsCalls[i].page, title |-> handsCalls[i].title,
                                  prompt |-> handsCalls[i].prompt,
                                  expected |-> handsCalls[i].expected])
  /\ [](Exported =>
          LET secs == SectionsOf(promptsFile)
          IN  /\ Len(secs) = Len(handsCalls)
              /\ \A i \in 1..Len(secs) :
                    /\ IsPrefix(HeadingOf(handsCalls[i]), secs[i])
                    /\ Fenced(secs[i]) = handsCalls[i].prompt)

C25_Witness ==
  /\ Exported
  /\ runs = 2
  /\ Len(handsCalls) = 2
  /\ handsCalls[1].run = 1
  /\ handsCalls[2].run = 2
  /\ Len(ALL_PROMPTS) = 2
  /\ CountBreaks(handoffs[1]) = 1
  /\ Len(SectionsOf(promptsFile)) = 2
  /\ Fenced(SectionsOf(promptsFile)[1]) = handsCalls[1].prompt

\* the items of a content list that are a str or a tuple
StrOrTuple(items) == SelectSeq(items, LAMBDA it : it.tag # "list")

\* C26: a content item that is neither a str nor a tuple appends no block and
\* raises nothing: the slide is the same as if the item were not in the list,
\* namely the title, the blocks of the other items in input order and the page
\* break.
C26_OtherItemsSkipped ==
  (lastCall.op = "create_content_slide"
     /\ FirstRaising(lastCall.args[2]) = 0
     /\ \E i \in 1..Len(lastCall.args[2]) : lastCall.args[2][i].tag = "list") =>
    /\ raised = "none" /\ slides = 1
    /\ story = ContentSlideBlocks(variant, lastCall.args[1], StrOrTuple(lastCall.args[2]))
    /\ Len(Paragraphs(story)) =
         1 + Len(WantedLines(StrOrTuple(lastCall.args[2])))
    /\ story[Len(story)] = PageBreak /\ CountBreaks(story) = 1

C26_Witness ==
  /\ lastCall.op = "create_content_slide"
  /\ lastCall.args[2] = <<ListItem(<<"h">>), StrItem(<<"a">>)>>
  /\ raised = "none"
  /\ slides = 1
  /\ Len(Paragraphs(story)) = 2
  /\ story[Len(story)] = PageBreak

\* C27: a save called while the captured-state list is empty draws no footer
\* and commits no page; the document it writes has no page.
C27_EmptySaveCommitsNothing ==
  ((cpc # "ready" \/ saveCalls > 0) /\ shownAtSave = 0) =>
    /\ drawn = <<>>
    /\ CommittedBySave = <<>>
    /\ cpc # "ready" => (num_pages = 0 /\ cpc = "loop")
    /\ (SaveDone /\ saveCalls = 1) => (docPages = <<>> /\ outFile = <<>>)

C27_Witness ==
  /\ SaveDone /\ saveCalls = 1
  /\ shownAtSave = 0
  /\ Len(captured) = 1 /\ captured[1] # <<>>
  /\ drawn = <<>>
  /\ docPages = <<>>
  /\ outFile = <<>>

\* C28: when save is called with N >= 1 captured pages, what was drawn after
\* the last showPage is dropped: restoring the first snapshot replaces it, N
\* stays the number of showPage calls, the page in progress is never captured
\* and the output is the N captured pages and nothing else.
C28_OnlyClosedPages ==
  /\ [][(cpc = "loop" /\ cpc' = "footer" /\ idx = 1) =>
          /\ code' = saved_page_states[1].code
          /\ pageNumber' = saved_page_states[1].pageNumber]_vars
  /\ []((saveCalls = 0 /\ cpc # "ready" /\ shownAtSave >= 1) =>
          /\ num_pages = shownAtSave
          /\ Len(captured) = shownAtSave
          /\ Len(saved_page_states) = shownAtSave)
  /\ [][(saveCalls = 0 /\ saveCalls' = 1 /\ shownAtSave >= 1) =>
          /\ code = <<>>
          /\ captured' = captured /\ saved_page_states' = saved_page_states
          /\ Len(outFile') = shownAtSave]_vars
  /\ []((SaveDone /\ saveCalls = 1 /\ shownAtSave >= 1) =>
          /\ Len(outFile) = shownAtSave
          /\ \A i \in 1..shownAtSave :
                /\ Content(outFile[i]) = captured[i]
                /\ FooterTexts(outFile[i]) = << <<"text", PageText(i, shownAtSave)>> >>)

C28_Witness ==
  /\ saveCalls = 0
  /\ cpc = "loop"
  /\ idx = 1
  /\ shownAtSave = 1
  /\ captured = << << <<"draw", "a">> >> >>
  /\ code = << <<"draw", "b">> >>
  /\ num_pages = 1

\* the item texts of a table cell: what stands between each mark and the end
\* of its font element
ShownItems(cell, mark) ==
  LET ps == Positions(cell, mark)
  IN  [k \in 1..Len(ps) |->
         SubSeq(cell, ps[k] + 1,
                (CHOOSE e \in (ps[k] + 1)..Len(cell) :
                   cell[e] = EndFont /\ \A d \in (ps[k] + 1)..(e - 1) : cell[d] # EndFont) - 1)]

ColumnHead(col_title) ==
  <<Font("#0076CE", "16"), "<b>">> \o col_title \o <<"</b>", EndFont, "<br/><br/>">>

\* C29: create_two_column_slide appends four blocks (title, spacer, one table of
\* one row and two cells, page break) whatever the items; the left cell is the
\* left title followed by all left items in input order, the right cell the
\* right title followed by all right items in input order, and no item is shown
\* in the other column.
C29_TwoColumns ==
  lastCall.op = "create_two_column_slide" =>
    LET a == lastCall.args
        cells == story[3].cells
    IN  /\ Len(story) = 4
        /\ <<story[1].kind, story[2].kind, story[3].kind, story[4].kind>>
             = <<"Paragraph", "Spacer", "Table", "PageBreak">>
        /\ Len(cells) = 2
        /\ IsPrefix(ColumnHead(a[2]), cells[1])
        /\ IsPrefix(ColumnHead(a[4]), cells[2])
        /\ ShownItems(cells[1], CheckMark) = a[3]
        /\ ShownItems(cells[2], Bullet) = a[5]
        /\ Positions(cells[1], Bullet) = <<>>
        /\ Positions(cells[2], CheckMark) = <<>>
        /\ Len(cells[1]) = Len(ColumnHead(a[2])) + 5 * Len(a[3])
        /\ Len(cells[2]) = Len(ColumnHead(a[4])) + 5 * Len(a[5])

C29_Witness ==
  /\ lastCall.op = "create_two_column_slide"
  /\ lastCall.args[3] = << <<"a">>, <<"b">>, <<"a">> >>
  /\ lastCall.args[5] = << <<"b">> >>
  /\ Len(story) = 4
  /\ ShownItems(story[3].cells[1], CheckMark) = << <<"a">>, <<"b">>, <<"a">> >>
  /\ ShownItems(story[3].cells[2], Bullet) = << <<"b">> >>
====
